---- MODULE Spec2Model ----
(***************************************************************************)
(* Model of the three scraper loops of mercury.workers: profiles           *)
(* (src/unnamed/part_000), following and likes (src/unnamed/part_001),     *)
(* over one shared store (tUser, tConnection, tTweet, tLike) and one       *)
(* clock.  Numbers of milliseconds are exact; SLEEP_TIME_MS, a double in   *)
(* the source, is kept as an exact reduced fraction.                       *)
(***************************************************************************)
EXTENDS Integers, Sequences, FiniteSets, TLC

VARIABLES
    now,                          \* Date.now(), in ms
    ticks,                        \* how often the clock has advanced
    tUser,                        \* table tUser: id -> row
    tConnection,                  \* table tConnection: set of version rows
    tTweet,                       \* table tTweet: set of tweet ids
    tLike,                        \* table tLike: rows in creation order
    SLEEP_TIME_MS,                \* per module: base interval (fraction)
    SLEEP_UNTIL_TIMESTAMP_IN_MS,  \* per module
    EXECUTION_TIME_MS,            \* per loop: local of the scraper function
    pc,                           \* per loop: where the loop stands
    start,                        \* per loop: const start = Date.now()
    timer,                        \* per loop: the pending sleep(ms)
    staleUsers,                   \* per loop: the selected rows (snapshots)
    dbIds,                        \* per loop: dbFollowingIds / dbLikesIds
    request,                      \* per loop: the remote response
    todo,                         \* per loop: the writes still to make
    previousConnection,           \* per loop: result of findFirst
    wrote,                        \* per loop: store writes of this iteration
    outcome,                      \* per loop: how this iteration ended
    lastPass,                     \* per loop: the previous completed pass
    replay,                       \* the loops whose last iteration ended in P2002
    events,                       \* per module: backoff events so far
    running,                      \* the loops this process has started
    unhandledRejections,          \* what the runtime does with a rejected promise nobody handles
    diffOld, diffNew, diffOut     \* inputs and result of the set diff

vars == <<now, ticks, tUser, tConnection, tTweet, tLike, SLEEP_TIME_MS,
          SLEEP_UNTIL_TIMESTAMP_IN_MS, EXECUTION_TIME_MS, pc, start, timer,
          staleUsers, dbIds, request, todo, previousConnection, wrote,
          outcome, lastPass, replay, events, running, unhandledRejections,
          diffOld, diffNew, diffOut>>

storeVars == <<tUser, tConnection, tTweet, tLike>>
diffVars == <<diffOld, diffNew, diffOut, running, unhandledRejections>>

(***************************************************************************)
(* Bounds of the model.                                                    *)
(***************************************************************************)
MaxTicks == 3       \* clock advances explored
MaxLen == 2         \* length of the id lists given to the set diff
RaceTicks == 1      \* clock advances explored with two following loops
MaxEvents == 6      \* backoff events counted per module

(***************************************************************************)
(* Program constants.                                                      *)
(***************************************************************************)
INITIAL_SLEEP_TIME_MS == 60 * 1000
REFRESH_THRESHOLD_IN_MS == 8 * 60 * 60 * 1000
MIN_SLEEP_MS == 1000
BOOT_SLEEP_MS == 1000
COOLDOWN_MS == 60 * 1000
LIKES_TAKE == 1000
FOLLOWING_PAGE == 1000

\* a multiplier that shrinks the interval
SLEEP_MULTIPLIER_SHRINKS == [num |-> 9, den |-> 10]

\* SLEEP_MULTIPLIER_ON_ERROR = 1.1, as the fraction 11/10
SLEEP_MULTIPLIER_ON_ERROR == [num |-> 11, den |-> 10]

Hour == 60 * 60 * 1000

(***************************************************************************)
(* Fractions.                                                              *)
(***************************************************************************)
RECURSIVE Gcd(_, _)
Gcd(a, b) == IF b = 0 THEN a ELSE Gcd(b, a % b)

Frac(n, d) == LET g == Gcd(n, d) IN [num |-> n \div g, den |-> d \div g]

FracMul(x, y) == Frac(x.num * y.num, x.den * y.den)

\* x - k for an integer k, when x >= k
FracMinusInt(x, k) == Frac(x.num - k * x.den, x.den)

\* x <= k for an integer k, without forming k * x.den when k is large
FracLeqInt(x, k) ==
    IF k > x.num \div x.den THEN TRUE ELSE x.num <= k * x.den

(***************************************************************************)
(* The set diff of the edge tracks: new Set(list) keeps the first          *)
(* occurrence of each id in insertion order; the diff filters one Set by   *)
(* membership in the other.                                                *)
(***************************************************************************)
Elems(s) == {s[i] : i \in 1..Len(s)}

SetHas(set, x) == \E i \in 1..Len(set) : set[i] = x

SetAdd(set, x) == IF SetHas(set, x) THEN set ELSE Append(set, x)

RECURSIVE NewSet(_)
NewSet(list) ==
    IF Len(list) = 0 THEN <<>>
    ELSE SetAdd(NewSet(SubSeq(list, 1, Len(list) - 1)), list[Len(list)])

addedWrong(oldIds, newIds) == NewSet(newIds)
added(oldIds, newIds) ==
    LET _old == NewSet(oldIds)
        _new == NewSet(newIds)
    IN  NewSet(SelectSeq(_new, LAMBDA x : ~SetHas(_old, x)))

removedWrong(oldIds, newIds) == added(oldIds, newIds)
removed(oldIds, newIds) ==
    LET _old == NewSet(oldIds)
        _new == NewSet(newIds)
    IN  NewSet(SelectSeq(_old, LAMBDA x : ~SetHas(_new, x)))

(***************************************************************************)
(* The world of the model: accounts, tweets, and what the remote API can   *)
(* answer.                                                                 *)
(***************************************************************************)
Tracks == {"profiles", "likes", "following"}
EdgeTracks == {"likes", "following"}

\* the loop instances: one per track, a second profile loop in the same
\* process (the module starts scraperProfiles itself and the driver starts it
\* again), and a following loop of a second process (a restarted or duplicate
\* instance)
Loops == Tracks \cup {"profiles2", "following2"}
TrackOf(l) ==
    CASE l = "profiles2" -> "profiles"
      [] l = "following2" -> "following"
      [] OTHER -> l
\* the module whose SLEEP_TIME_MS and SLEEP_UNTIL_TIMESTAMP_IN_MS a loop uses
ModuleOf(l) == IF l = "profiles2" THEN "profiles" ELSE l
\* the process a loop runs in
ProcessOf(l) == IF l = "following2" THEN "second" ELSE "first"
ProfileLoops == {l \in Loops : TrackOf(l) = "profiles"}
EdgeLoops == {l \in Loops : TrackOf(l) \in EdgeTracks}
FollowingLoops == {l \in Loops : TrackOf(l) = "following"}

AccountOrder == <<"u1", "u2", "u3", "u4">>
Accounts == Elems(AccountOrder)
Tracked == {"u1", "u2"}
TweetOrder == <<"t1", "t2">>
Tweets == Elems(TweetOrder)

\* remote attributes of the accounts (fields verified and protected of UserV2)
VerifiedAccounts == {"u2"}
ProtectedAccounts == {"u3"}
RemoteUser(id) ==
    [id |-> id, verified |-> id \in VerifiedAccounts,
     protected |-> id \in ProtectedAccounts]

\* the following lists and liked-tweet lists the remote may return
RemoteFollowingLists == {<<>>, <<"u2", "u3">>, <<"u4", "u3">>}
RemoteLikedLists == {<<>>, <<"t1">>, <<"t2", "t1">>}
RemainingChoices == {1, 15}
ResetChoices(t) == {(t \div 1000) + 300}

\* what a failed fetch throws, and what a failed store call throws
FetchErrors == {"RateLimited", "ServerError", "RequestError"}
StoreErrors == {"P2002", "StoreError"}

TimeSteps == {2 * 60 * 1000, 9 * Hour}
\* the three timestamps (profile, likes, following) of account u1 at the
\* start: the edge loops read one of them, the profile loop reads two
InitStamps(track) ==
    {<<0, 0, 0>>, <<7 * Hour, 7 * Hour, 7 * Hour>>} \cup
    (IF track = "profiles"
     THEN {<<0, 7 * Hour, 0>>, <<7 * Hour, 0, 7 * Hour>>} ELSE {})

(***************************************************************************)
(* Store rows.                                                             *)
(***************************************************************************)
NoRow ==
    [present |-> FALSE, marked |-> FALSE, accountExists |-> FALSE,
     protected |-> FALSE, profileScrapedAt |-> 0, likesScrapedAt |-> 0,
     fullFollowingScrapedAt |-> 0, lastFollowingCount |-> 0]

TrackedRow(p, l, f, c) ==
    [present |-> TRUE, marked |-> TRUE, accountExists |-> TRUE,
     protected |-> FALSE, profileScrapedAt |-> p, likesScrapedAt |-> l,
     fullFollowingScrapedAt |-> f, lastFollowingCount |-> c]

\* a row as a query returns it: the row with its id
Snapshot(id) ==
    [id |-> id, profileScrapedAt |-> tUser[id].profileScrapedAt,
     likesScrapedAt |-> tUser[id].likesScrapedAt,
     fullFollowingScrapedAt |-> tUser[id].fullFollowingScrapedAt,
     lastFollowingCount |-> tUser[id].lastFollowingCount]

Stamp(row, track) ==
    CASE track = "profiles" -> row.profileScrapedAt
      [] track = "likes" -> row.likesScrapedAt
      [] track = "following" -> row.fullFollowingScrapedAt

\* the ids of a set in the fixed order of AccountOrder / TweetOrder
InOrder(order, S) == SelectSeq(order, LAMBDA x : x \in S)

Take(s, n) == SubSeq(s, 1, IF Len(s) < n THEN Len(s) ELSE n)

Reverse(s) == [i \in 1..Len(s) |-> s[Len(s) + 1 - i]]

\* one store write, as the iteration's log records it
W(kind, id, to, version, status) ==
    [kind |-> kind, id |-> id, to |-> to, version |-> version, status |-> status]

NoRequest == [users |-> <<>>, tweets |-> <<>>, remaining |-> 0, reset |-> 0]

(***************************************************************************)
(* StalenessSelector: the where / orderBy / take of the three queries.     *)
(***************************************************************************)
PROFILES_TAKE == 100

Eligible(track) ==
    {id \in Accounts :
        /\ tUser[id].present
        /\ tUser[id].marked
        /\ tUser[id].accountExists
        /\ track \in EdgeTracks => ~tUser[id].protected}

\* every order of S that is ascending in the track's timestamp (the store
\* may return rows of equal timestamp in any order)
OrderBy(S, track) ==
    {s \in [1..Cardinality(S) -> S] :
        /\ \A i, j \in 1..Cardinality(S) : i < j =>
              /\ s[i] # s[j]
              /\ Stamp(tUser[s[i]], track) <= Stamp(tUser[s[j]], track)}

\* findMany ... take: the possible results, as lists of row snapshots
FindMany(track, take) ==
    {[i \in 1..Len(Take(s, take)) |-> Snapshot(s[i])] : s \in OrderBy(Eligible(track), track)}

\* the timestamp the threshold check of each loop reads
ThresholdStamp(row, track) ==
    IF track = "profiles" THEN row.likesScrapedAt ELSE Stamp(row, track)

Due(row, track) == now - ThresholdStamp(row, track) > REFRESH_THRESHOLD_IN_MS

\* whether the nothing-due branch of the loop grows SLEEP_TIME_MS
GrowsWhenNothingDue(track) == track # "following"

(***************************************************************************)
(* tConnection queries.                                                    *)
(***************************************************************************)
Versions(from, to) ==
    {r.version : r \in {c \in tConnection : c.fromId = from /\ c.toId = to}}

\* findFirst({where: {fromId, toId}, orderBy: {version: "desc"}}): <<>> or <<row>>
FindFirst(from, to) ==
    LET rows == {c \in tConnection : c.fromId = from /\ c.toId = to}
    IN  IF rows = {} THEN <<>>
        ELSE <<CHOOSE c \in rows : \A d \in rows : d.version <= c.version>>

\* findMany({where: {fromId}, distinct: [fromId, toId], orderBy: version desc})
DbFollowing(from) ==
    {FindFirst(from, to)[1] : to \in {c.toId : c \in {d \in tConnection : d.fromId = from}}}

dbFollowingIdsWrong(from) ==
    InOrder(AccountOrder, {c.toId : c \in {d \in tConnection : d.fromId = from /\ d.status = "CONNECTED"}})
dbFollowingIds(from) ==
    InOrder(AccountOrder, {c.toId : c \in {d \in DbFollowing(from) : d.status = "CONNECTED"}})

\* tLike.findMany({where: {tUserId}, orderBy: recordCreatedAt desc, take: 1000})
dbLikesIds(user) ==
    LET mine == SelectSeq(tLike, LAMBDA r : r.tUserId = user)
        ids == [i \in 1..Len(mine) |-> mine[i].tTweetId]
    IN  Take(Reverse(ids), LIKES_TAKE)

(***************************************************************************)
(* The scraper functions: the while loop around loop().                    *)
(***************************************************************************)
govVars == <<SLEEP_TIME_MS, SLEEP_UNTIL_TIMESTAMP_IN_MS, events>>
localVars == <<staleUsers, dbIds, request, todo, previousConnection>>
clockVars == <<now, ticks>>
passVars == <<lastPass, replay>>

Set(f, l, v) == [f EXCEPT ![l] = v]

\* as MayRun, but without the comparison against the sleep-until timestamp
MayRunAlways(l) == l \in Loops

\* if (Date.now() > SLEEP_UNTIL_TIMESTAMP_IN_MS)
MayRun(l) == now > SLEEP_UNTIL_TIMESTAMP_IN_MS[ModuleOf(l)]

\* the timer of sleep(ms) has run out
Elapsed(l) == FracLeqInt(timer[l].ms, now - timer[l].at)

\* a scraper's promise has rejected: the rethrow in the .catch of its caller
\* leaves a rejection nobody handles, which ends the process when the
\* runtime throws on it and is only reported when the runtime warns
Halted(l) ==
    /\ unhandledRejections = "throw"
    /\ \E k \in running : ProcessOf(k) = ProcessOf(l) /\ pc[k] = "crashed"

\* top of the while loop, after the sleep: enter loop() or skip it
Begin(l) ==
    /\ l \in running
    /\ pc[l] = "sleeping"
    /\ ~Halted(l)
    /\ Elapsed(l)
    /\ IF MayRun(l)
       THEN /\ pc' = Set(pc, l, "select")
            /\ start' = Set(start, l, now)
            /\ outcome' = Set(outcome, l, "running")
       ELSE /\ pc' = Set(pc, l, "skipped")
            /\ outcome' = Set(outcome, l, "skipped")
            /\ UNCHANGED start
    /\ UNCHANGED <<clockVars, storeVars, govVars, localVars, EXECUTION_TIME_MS,
                   timer, wrote, passVars, diffVars>>

\* loop() returns: const end = Date.now(); EXECUTION_TIME_MS = end - start
Return(l, how) ==
    /\ pc' = Set(pc, l, "returned")
    /\ outcome' = Set(outcome, l, how)
    /\ EXECUTION_TIME_MS' = Set(EXECUTION_TIME_MS, l, now - start[l])

\* one more backoff event; the count is kept up to MaxEvents
Counted(n) == IF n < MaxEvents THEN n + 1 ELSE n

\* the error kinds each scraper's catch block handles
Catches(l) ==
    IF TrackOf(l) = "following" THEN {"RateLimited", "ServerError", "P2002"}
    ELSE {"RateLimited"}

SleepUntilOnRateLimitWrong(reset) == reset
SleepUntilOnRateLimit(reset) == reset * 1000

\* the catch block: loop() threw err (reset is error.rateLimit.reset)
Catch(l, err, reset) ==
    /\ outcome' = Set(outcome, l, err)
    /\ UNCHANGED EXECUTION_TIME_MS
    /\ IF err \in Catches(l)
       THEN /\ pc' = Set(pc, l, "caught")
            /\ IF err = "RateLimited"
               THEN /\ SLEEP_UNTIL_TIMESTAMP_IN_MS' =
                         Set(SLEEP_UNTIL_TIMESTAMP_IN_MS, ModuleOf(l), SleepUntilOnRateLimit(reset))
                    /\ SLEEP_TIME_MS' =
                         Set(SLEEP_TIME_MS, ModuleOf(l), FracMul(SLEEP_TIME_MS[ModuleOf(l)], SLEEP_MULTIPLIER_ON_ERROR))
                    /\ events' = Set(events, ModuleOf(l), [events[ModuleOf(l)] EXCEPT !.rateLimited = Counted(@)])
               ELSE /\ SLEEP_UNTIL_TIMESTAMP_IN_MS' =
                         Set(SLEEP_UNTIL_TIMESTAMP_IN_MS, ModuleOf(l), now + COOLDOWN_MS)
                    /\ UNCHANGED <<SLEEP_TIME_MS, events>>
       ELSE /\ pc' = Set(pc, l, "crashed")
            /\ UNCHANGED govVars

\* as sleepTime, but floored at 0 instead of 1000
sleepTimeWrong(l) ==
    IF FracLeqInt(SLEEP_TIME_MS[ModuleOf(l)], EXECUTION_TIME_MS[l])
    THEN Frac(0, 1)
    ELSE FracMinusInt(SLEEP_TIME_MS[ModuleOf(l)], EXECUTION_TIME_MS[l])

\* Math.max(1000, SLEEP_TIME_MS - EXECUTION_TIME_MS)
sleepTime(l) ==
    IF FracLeqInt(SLEEP_TIME_MS[ModuleOf(l)], EXECUTION_TIME_MS[l] + MIN_SLEEP_MS)
    THEN Frac(MIN_SLEEP_MS, 1)
    ELSE FracMinusInt(SLEEP_TIME_MS[ModuleOf(l)], EXECUTION_TIME_MS[l])

\* what the remote answered about account id in this pass: for an edge track
\* the fetched list, for the profile track the entry of id (none if absent)
RemoteFor(l, id) ==
    [users |-> IF TrackOf(l) = "profiles"
               THEN {x \in Elems(request[l].users) : x.id = id}
               ELSE Elems(request[l].users),
     tweets |-> Elems(request[l].tweets)]

Batch(l) == {staleUsers[l][i].id : i \in 1..Len(staleUsers[l])}

\* per account, what its next pass is compared with: the remote data of the
\* pass just completed, or nothing once an iteration that did not complete
\* has written to the store
Remember(l) ==
    [id \in Accounts |->
        IF id \notin Batch(l) THEN lastPass[l][id]
        ELSE IF outcome[l] = "ok" THEN <<RemoteFor(l, id)>>
        ELSE IF wrote[l] # {} THEN <<>>
        ELSE lastPass[l][id]]

\* the loops whose coming iteration replays one that ended in the
\* duplicate-key branch of the catch block
Replay(l) ==
    IF outcome[l] = "P2002" THEN replay \cup {l}
    ELSE IF outcome[l] = "skipped" THEN replay
    ELSE replay \ {l}

\* end of the iteration: await sleep(sleepTime)
Sleep(l) ==
    /\ pc[l] \in {"returned", "caught", "skipped"}
    /\ ~Halted(l)
    /\ pc' = Set(pc, l, "sleeping")
    /\ timer' = Set(timer, l, [at |-> now, ms |-> sleepTime(l)])
    /\ lastPass' = Set(lastPass, l, Remember(l))
    /\ replay' = Replay(l)
    /\ staleUsers' = Set(staleUsers, l, <<>>)
    /\ dbIds' = Set(dbIds, l, <<>>)
    /\ request' = Set(request, l, NoRequest)
    /\ todo' = Set(todo, l, <<>>)
    /\ previousConnection' = Set(previousConnection, l, <<>>)
    /\ wrote' = Set(wrote, l, {})
    /\ outcome' = Set(outcome, l, "sleeping")
    /\ UNCHANGED <<clockVars, storeVars, govVars, EXECUTION_TIME_MS, start, diffVars>>

\* the clock advances: time is seen to pass while a loop waits for its timer
\* or for the remote API (store calls are short against the steps of the clock)
Tick(d) ==
    /\ ticks < MaxTicks
    /\ \E l \in running : pc[l] \in {"sleeping", "fetch"}
    /\ now' = now + d
    /\ ticks' = ticks + 1
    /\ UNCHANGED <<storeVars, govVars, localVars, EXECUTION_TIME_MS, pc, start,
                   timer, wrote, outcome, passVars, diffVars>>

(***************************************************************************)
(* loop(): selection and threshold check.                                  *)
(***************************************************************************)
NothingDue(l, first) ==
    /\ SLEEP_UNTIL_TIMESTAMP_IN_MS' =
          Set(SLEEP_UNTIL_TIMESTAMP_IN_MS, ModuleOf(l),
              ThresholdStamp(first, TrackOf(l)) + REFRESH_THRESHOLD_IN_MS)
    /\ IF GrowsWhenNothingDue(TrackOf(l))
       THEN /\ SLEEP_TIME_MS' =
                  Set(SLEEP_TIME_MS, ModuleOf(l), FracMul(SLEEP_TIME_MS[ModuleOf(l)], SLEEP_MULTIPLIER_ON_ERROR))
       ELSE /\ UNCHANGED SLEEP_TIME_MS
    /\ events' = Set(events, ModuleOf(l), [events[ModuleOf(l)] EXCEPT !.nothingDue = Counted(@)])
    /\ Return(l, "nothingDue")

\* profiles: findMany take 100, the log line, the empty check, the threshold
SelectProfiles(l) ==
    /\ TrackOf(l) = "profiles"
    /\ pc[l] = "select"
    /\ ~Halted(l)
    /\ \E found \in FindMany(TrackOf(l), PROFILES_TAKE) :
          /\ staleUsers' = Set(staleUsers, l, found)
          /\ IF Len(found) = 0
             THEN \* staleUsers[0].username in the log line throws a TypeError
                  /\ Catch(l, "TypeError", 0)
             ELSE IF ~Due(found[1], TrackOf(l))
             THEN NothingDue(l, found[1])
             ELSE /\ pc' = Set(pc, l, "fetch")
                  /\ UNCHANGED <<govVars, outcome, EXECUTION_TIME_MS>>
    /\ UNCHANGED <<clockVars, storeVars, dbIds, request, todo, previousConnection,
                   start, timer, wrote, passVars, diffVars>>

\* likes and following: findFirst, the empty check, the threshold
SelectEdge(l) ==
    /\ l \in EdgeLoops
    /\ pc[l] = "select"
    /\ ~Halted(l)
    /\ \E found \in FindMany(TrackOf(l), 1) :
          /\ staleUsers' = Set(staleUsers, l, found)
          /\ IF Len(found) = 0
             THEN /\ Return(l, "none")
                  /\ UNCHANGED govVars
             ELSE IF ~Due(found[1], TrackOf(l))
             THEN NothingDue(l, found[1])
             ELSE /\ pc' = Set(pc, l, "readdb")
                  /\ UNCHANGED <<govVars, outcome, EXECUTION_TIME_MS>>
    /\ UNCHANGED <<clockVars, storeVars, dbIds, request, todo, previousConnection,
                   start, timer, wrote, passVars, diffVars>>

\* likes and following: read the local reference set
ReadDb(l) ==
    /\ l \in EdgeLoops
    /\ pc[l] = "readdb"
    /\ ~Halted(l)
    /\ dbIds' = Set(dbIds, l,
          IF TrackOf(l) = "following" THEN dbFollowingIds(staleUsers[l][1].id)
          ELSE dbLikesIds(staleUsers[l][1].id))
    /\ pc' = Set(pc, l, "fetch")
    /\ UNCHANGED <<clockVars, storeVars, govVars, staleUsers, request, todo,
                   previousConnection, EXECUTION_TIME_MS, start, timer, wrote,
                   outcome, passVars, diffVars>>

\* the remote call of any track throws
FetchFails(l, err) ==
    /\ pc[l] = "fetch"
    /\ ~Halted(l)
    /\ \E reset \in ResetChoices(now) :
          /\ request' = Set(request, l, [NoRequest EXCEPT !.reset = reset])
          /\ Catch(l, err, reset)
    /\ UNCHANGED <<clockVars, storeVars, staleUsers, dbIds, todo,
                   previousConnection, start, timer, wrote, passVars, diffVars>>

\* a store write of any track throws
StoreFails(l, err) ==
    /\ pc[l] \in {"write", "lookup", "create", "finish"}
    /\ ~Halted(l)
    /\ Catch(l, err, 0)
    /\ UNCHANGED <<clockVars, storeVars, localVars, start, timer, wrote,
                   passVars, diffVars>>

(***************************************************************************)
(* loop() of the profile track: batch lookup, removed ids, per-user update.*)
(***************************************************************************)
Item(op, id) == [op |-> op, id |-> id]

Ids(rows) == [i \in 1..Len(rows) |-> rows[i].id]

Concat(s, t) == s \o t

\* const removedIds = userIds.filter((id) => !requestIds.includes(id))
removedIds(userIds, requestIds) ==
    SelectSeq(userIds, LAMBDA id : ~SetHas(requestIds, id))

\* twtr.v2.users(userIds) answers with the accounts that still exist
FetchProfiles(l) ==
    LET userIds == Ids(staleUsers[l])
    IN
    /\ TrackOf(l) = "profiles"
    /\ pc[l] = "fetch"
    /\ ~Halted(l)
    /\ \E existing \in SUBSET Elems(userIds) :
          LET data == [i \in 1..Len(InOrder(userIds, existing)) |->
                          RemoteUser(InOrder(userIds, existing)[i])]
              gone == removedIds(userIds, Ids(data))
          IN  /\ request' = Set(request, l, [NoRequest EXCEPT !.users = data])
              /\ todo' = Set(todo, l,
                    Concat([i \in 1..Len(gone) |-> Item("markRemoved", gone[i])],
                           [i \in 1..Len(data) |-> Item("update", data[i].id)]))
    /\ pc' = Set(pc, l, "write")
    /\ UNCHANGED <<clockVars, storeVars, govVars, staleUsers, dbIds,
                   previousConnection, EXECUTION_TIME_MS, start, timer, wrote,
                   outcome, passVars, diffVars>>

RemoteOf(l, id) ==
    LET hits == SelectSeq(request[l].users, LAMBDA x : x.id = id)
    IN  IF Len(hits) = 0 THEN <<>> ELSE <<hits[1]>>

\* data of the per-user prisma.tUser.update of the profile loop
ProfileUpdate(row, user) ==
    [row EXCEPT !.profileScrapedAt = now, !.protected = user.verified]

\* data of the update of a removed id
MarkRemoved(row) == [row EXCEPT !.accountExists = FALSE]

\* one prisma.tUser.update of the two for-loops
WriteProfiles(l) ==
    LET item == Head(todo[l])
    IN
    /\ TrackOf(l) = "profiles"
    /\ pc[l] = "write"
    /\ ~Halted(l)
    /\ IF item.op = "markRemoved"
       THEN /\ tUser' = Set(tUser, item.id, MarkRemoved(tUser[item.id]))
            /\ wrote' = Set(wrote, l, wrote[l] \cup {W("exists", item.id, "", 0, "")})
       ELSE /\ tUser' = Set(tUser, item.id,
                  ProfileUpdate(tUser[item.id], RemoteOf(l, item.id)[1]))
            /\ wrote' = Set(wrote, l, wrote[l] \cup
                  {W("profile", item.id, "", 0, ""), W("stamp", item.id, "", 0, "")})
    /\ todo' = Set(todo, l, Tail(todo[l]))
    /\ IF Len(todo[l]) = 1
       THEN Return(l, "ok")
       ELSE UNCHANGED <<pc, outcome, EXECUTION_TIME_MS>>
    /\ UNCHANGED <<clockVars, tConnection, tTweet, tLike, govVars, staleUsers,
                   dbIds, request, previousConnection, start, timer, passVars,
                   diffVars>>

(***************************************************************************)
(* loop() of the following track.                                          *)
(***************************************************************************)
\* request.rateLimit.remaining < staleUser.lastFollowingCount / 1000
CannotFinish(remaining, lastFollowingCount) ==
    remaining * FOLLOWING_PAGE < lastFollowingCount

\* twtr.v2.following(id) answers, the paginator is read to its end
FetchFollowing(l) ==
    LET user == staleUsers[l][1]
    IN
    /\ TrackOf(l) = "following"
    /\ pc[l] = "fetch"
    /\ ~Halted(l)
    /\ \E list \in {x \in RemoteFollowingLists : ~SetHas(x, user.id)},
          remaining \in RemainingChoices, reset \in ResetChoices(now) :
          IF CannotFinish(remaining, user.lastFollowingCount)
             THEN \* twtrFollowing is still empty: the paginator was not read
                  /\ request' = Set(request, l,
                        [NoRequest EXCEPT !.remaining = remaining, !.reset = reset])
                  /\ SLEEP_UNTIL_TIMESTAMP_IN_MS' =
                        Set(SLEEP_UNTIL_TIMESTAMP_IN_MS, ModuleOf(l), reset * 1000)
                  /\ Return(l, "quota")
                  /\ UNCHANGED todo
             ELSE LET adds == added(dbIds[l], list)
                      dels == removed(dbIds[l], list)
                      work == Concat([i \in 1..Len(adds) |-> Item("add", adds[i])],
                                     [i \in 1..Len(dels) |-> Item("remove", dels[i])])
                  IN  /\ request' = Set(request, l,
                            [users |-> [i \in 1..Len(list) |-> RemoteUser(list[i])],
                             tweets |-> <<>>, remaining |-> remaining, reset |-> reset])
                      /\ todo' = Set(todo, l, work)
                      /\ pc' = Set(pc, l, IF Len(work) = 0 THEN "finish" ELSE "lookup")
                      /\ UNCHANGED <<SLEEP_UNTIL_TIMESTAMP_IN_MS, outcome, EXECUTION_TIME_MS>>
    /\ UNCHANGED <<clockVars, storeVars, SLEEP_TIME_MS, events, staleUsers, dbIds,
                   previousConnection, start, timer, wrote, passVars, diffVars>>

\* prisma.tUser.upsert of upsertUser: userCreate or userUpsert
upsertUserReset(row, newUser) ==
    [NoRow EXCEPT !.present = TRUE, !.accountExists = TRUE, !.protected = newUser.verified]
upsertUserRevive(row, newUser) ==
    [row EXCEPT !.present = TRUE, !.accountExists = TRUE, !.protected = newUser.verified]
upsertUser(row, newUser) ==
    IF row.present
    THEN [row EXCEPT !.protected = newUser.verified]
    ELSE [NoRow EXCEPT !.present = TRUE, !.accountExists = TRUE,
                       !.marked = FALSE, !.protected = newUser.verified]

\* writeChangesToDb up to findFirst: upsertUser or findUnique, then the
\* latest version of the pair
Lookup(l) ==
    LET item == Head(todo[l])
        info == RemoteOf(l, item.id)
    IN
    /\ TrackOf(l) = "following"
    /\ pc[l] = "lookup"
    /\ ~Halted(l)
    /\ IF Len(info) = 0 /\ ~tUser[item.id].present
       THEN \* followedUser is null: followedUser!.id throws a TypeError
            /\ Catch(l, "TypeError", 0)
            /\ UNCHANGED <<tUser, wrote, previousConnection>>
       ELSE /\ IF Len(info) = 1
               THEN /\ tUser' = Set(tUser, item.id, upsertUser(tUser[item.id], info[1]))
                    /\ wrote' = Set(wrote, l, wrote[l] \cup {W("user", item.id, "", 0, "")})
               ELSE UNCHANGED <<tUser, wrote>>
            /\ previousConnection' =
                  Set(previousConnection, l, FindFirst(staleUsers[l][1].id, item.id))
            /\ pc' = Set(pc, l, "create")
            /\ UNCHANGED <<govVars, outcome, EXECUTION_TIME_MS>>
    /\ UNCHANGED <<clockVars, tConnection, tTweet, tLike, staleUsers, dbIds,
                   request, todo, start, timer, passVars, diffVars>>

\* const version = previousConnection ? previousConnection.version + 1 : 0
versionWrong(prev) == IF Len(prev) = 0 THEN 1 ELSE prev[1].version + 1
version(prev) == IF Len(prev) = 0 THEN 0 ELSE prev[1].version + 1

status(is_removed) == IF is_removed THEN "DISCONNECTED" ELSE "CONNECTED"

\* prisma.tConnection.create: the unique key (fromId, toId, version)
Create(l) ==
    LET item == Head(todo[l])
        row == [fromId |-> staleUsers[l][1].id, toId |-> item.id,
                version |-> version(previousConnection[l]),
                status |-> status(item.op = "remove")]
    IN
    /\ TrackOf(l) = "following"
    /\ pc[l] = "create"
    /\ ~Halted(l)
    /\ IF row.version \in Versions(row.fromId, row.toId)
       THEN /\ Catch(l, "P2002", 0)
            /\ UNCHANGED <<tConnection, wrote, todo>>
       ELSE /\ tConnection' = tConnection \cup {row}
            /\ wrote' = Set(wrote, l, wrote[l] \cup
                  {W("conn", row.fromId, row.toId, row.version, row.status)})
            /\ todo' = Set(todo, l, Tail(todo[l]))
            /\ pc' = Set(pc, l, IF Len(todo[l]) = 1 THEN "finish" ELSE "lookup")
            /\ UNCHANGED <<govVars, outcome, EXECUTION_TIME_MS>>
    /\ UNCHANGED <<clockVars, tUser, tTweet, tLike, staleUsers, dbIds, request,
                   previousConnection, start, timer, passVars, diffVars>>

(***************************************************************************)
(* loop() of the likes track.                                              *)
(***************************************************************************)
\* twtr.v2.userLikedTweets(id) answers
FetchLikes(l) ==
    /\ TrackOf(l) = "likes"
    /\ pc[l] = "fetch"
    /\ ~Halted(l)
    /\ \E list \in RemoteLikedLists :
          LET adds == added(dbIds[l], list)
          IN  /\ request' = Set(request, l, [NoRequest EXCEPT !.tweets = list])
              /\ todo' = Set(todo, l, [i \in 1..Len(adds) |-> Item("add", adds[i])])
              /\ pc' = Set(pc, l, IF Len(adds) = 0 THEN "finish" ELSE "write")
    /\ UNCHANGED <<clockVars, storeVars, govVars, staleUsers, dbIds,
                   previousConnection, EXECUTION_TIME_MS, start, timer, wrote,
                   outcome, passVars, diffVars>>

HasLike(user, tweet) ==
    \E i \in 1..Len(tLike) : tLike[i].tUserId = user /\ tLike[i].tTweetId = tweet

\* as likeUpsert, but the account's earlier like rows are dropped
likeUpsertWrong(user, tweet) ==
    IF HasLike(user, tweet) THEN tLike
    ELSE Append(SelectSeq(tLike, LAMBDA r : r.tUserId # user),
                [tUserId |-> user, tTweetId |-> tweet])

\* prisma.tLike.upsert({where, create, update: {}})
likeUpsert(user, tweet) ==
    IF HasLike(user, tweet) THEN tLike
    ELSE Append(tLike, [tUserId |-> user, tTweetId |-> tweet])

\* writeChangesToDb of the likes module: upsertTweet or findUnique, then
\* the like row
WriteLike(l) ==
    LET user == staleUsers[l][1].id
        id == Head(todo[l]).id
        info == SetHas(request[l].tweets, id)
        likedTweet == info \/ id \in tTweet
    IN
    /\ TrackOf(l) = "likes"
    /\ pc[l] = "write"
    /\ ~Halted(l)
    /\ tTweet' = IF info THEN tTweet \cup {id} ELSE tTweet
    /\ tLike' = IF likedTweet THEN likeUpsert(user, id) ELSE tLike
    /\ wrote' = Set(wrote, l, wrote[l]
          \cup (IF info THEN {W("tweet", "", id, 0, "")} ELSE {})
          \cup (IF likedTweet /\ ~HasLike(user, id) THEN {W("like", user, id, 0, "")} ELSE {}))
    /\ todo' = Set(todo, l, Tail(todo[l]))
    /\ pc' = Set(pc, l, IF Len(todo[l]) = 1 THEN "finish" ELSE "write")
    /\ UNCHANGED <<clockVars, tUser, tConnection, govVars, staleUsers, dbIds,
                   request, previousConnection, EXECUTION_TIME_MS, start, timer,
                   outcome, passVars, diffVars>>

\* the prisma.tUser.update that ends a pass of an edge track
StampUpdate(row, l) ==
    IF TrackOf(l) = "following" THEN [row EXCEPT !.fullFollowingScrapedAt = now]
    ELSE [row EXCEPT !.likesScrapedAt = now]

Finish(l) ==
    LET user == staleUsers[l][1].id IN
    /\ l \in EdgeLoops
    /\ pc[l] = "finish"
    /\ ~Halted(l)
    /\ tUser' = Set(tUser, user, StampUpdate(tUser[user], l))
    /\ wrote' = Set(wrote, l, wrote[l] \cup {W("stamp", user, "", 0, "")})
    /\ Return(l, "ok")
    /\ UNCHANGED <<clockVars, tConnection, tTweet, tLike, govVars, localVars,
                   start, timer, passVars, diffVars>>

(***************************************************************************)
(* The set diff on its own: any two id lists, then the diff both ways.     *)
(***************************************************************************)
DiffIds == {"A", "B", "C"}

IdLists == UNION {[1..n -> DiffIds] : n \in 0..MaxLen}

NoDiff == [done |-> FALSE, added |-> <<>>, removed |-> <<>>,
           backAdded |-> <<>>, backRemoved |-> <<>>]

ApplyDiff ==
    /\ ~diffOut.done
    /\ diffOut' = [done |-> TRUE,
                   added |-> added(diffOld, diffNew),
                   removed |-> removed(diffOld, diffNew),
                   backAdded |-> added(diffNew, diffOld),
                   backRemoved |-> removed(diffNew, diffOld)]
    /\ UNCHANGED <<clockVars, storeVars, govVars, localVars, EXECUTION_TIME_MS,
                   pc, start, timer, wrote, outcome, passVars, diffOld, diffNew, running, unhandledRejections>>

(***************************************************************************)
(* Specifications.                                                         *)
(***************************************************************************)
InitLoops ==
    /\ tConnection = {}
    /\ tTweet = {}
    /\ tLike = <<>>
    /\ SLEEP_TIME_MS = [l \in Loops |-> Frac(INITIAL_SLEEP_TIME_MS, 1)]
    /\ SLEEP_UNTIL_TIMESTAMP_IN_MS = [l \in Loops |-> 0]
    /\ EXECUTION_TIME_MS = [l \in Loops |-> 0]
    /\ pc = [l \in Loops |-> "sleeping"]
    /\ start = [l \in Loops |-> 0]
    /\ timer = [l \in Loops |->
                  [at |-> 9 * Hour,
                   ms |-> IF TrackOf(l) = "following" THEN Frac(BOOT_SLEEP_MS, 1) ELSE Frac(0, 1)]]
    /\ staleUsers = [l \in Loops |-> <<>>]
    /\ dbIds = [l \in Loops |-> <<>>]
    /\ request = [l \in Loops |-> NoRequest]
    /\ todo = [l \in Loops |-> <<>>]
    /\ previousConnection = [l \in Loops |-> <<>>]
    /\ wrote = [l \in Loops |-> {}]
    /\ outcome = [l \in Loops |-> "sleeping"]
    /\ lastPass = [l \in Loops |-> [id \in Accounts |-> <<>>]]
    /\ replay = {}
    /\ events = [l \in Loops |-> [nothingDue |-> 0, rateLimited |-> 0]]

InitProcess ==
    /\ now = 9 * Hour
    /\ ticks = 0
    /\ InitLoops

InitStore(p, l, f) ==
    tUser = [id \in Accounts |->
                CASE id = "u1" -> TrackedRow(p, l, f, 2000)
                  [] id = "u2" -> TrackedRow(7 * Hour, 7 * Hour, 7 * Hour, 0)
                  [] OTHER -> NoRow]

Init ==
    /\ InitProcess
    /\ unhandledRejections = "throw"
    /\ \E l \in Tracks :
          /\ running = {l}
          /\ \E s \in InitStamps(l) : InitStore(s[1], s[2], s[3])
    /\ diffOld = <<>>
    /\ diffNew = <<>>
    /\ diffOut = NoDiff

Next ==
    \/ \E l \in Tracks : Begin(l)
    \/ SelectProfiles("profiles")
    \/ \E l \in EdgeTracks : SelectEdge(l)
    \/ \E l \in EdgeTracks : ReadDb(l)
    \/ FetchProfiles("profiles")
    \/ FetchFollowing("following")
    \/ FetchLikes("likes")
    \/ \E l \in Tracks, err \in FetchErrors : FetchFails(l, err)
    \/ WriteProfiles("profiles")
    \/ Lookup("following")
    \/ Create("following")
    \/ WriteLike("likes")
    \/ \E l \in EdgeTracks : Finish(l)
    \/ \E l \in Tracks, err \in StoreErrors : StoreFails(l, err)
    \/ \E l \in Tracks : Sleep(l)
    \/ \E d \in TimeSteps : Tick(d)

Spec == Init /\ [][Next]_vars

InitDiff ==
    /\ InitProcess
    /\ running = {}
    /\ unhandledRejections = "throw"
    /\ InitStore(0, 0, 0)
    /\ diffOld \in IdLists
    /\ diffNew \in IdLists
    /\ diffOut = NoDiff

NextDiff == ApplyDiff

SpecDiff == InitDiff /\ [][NextDiff]_vars

(***************************************************************************)
(* Two following loops, each in a process of its own, over one store: a    *)
(* restarted or duplicate scheduler instance.                              *)
(***************************************************************************)
\* both processes are past the sleep(1000) that precedes the while loop
InitRace ==
    /\ now = 9 * Hour + BOOT_SLEEP_MS
    /\ ticks = MaxTicks - RaceTicks
    /\ InitLoops
    /\ running = FollowingLoops
    /\ unhandledRejections = "throw"
    /\ InitStore(0, 0, 0)
    /\ diffOld = <<>>
    /\ diffNew = <<>>
    /\ diffOut = NoDiff

NextRace ==
    \/ \E l \in FollowingLoops : Begin(l)
    \/ \E l \in FollowingLoops : SelectEdge(l)
    \/ \E l \in FollowingLoops : ReadDb(l)
    \/ \E l \in FollowingLoops : FetchFollowing(l)
    \/ \E l \in FollowingLoops : Lookup(l)
    \/ \E l \in FollowingLoops : Create(l)
    \/ \E l \in FollowingLoops : Finish(l)
    \/ \E l \in FollowingLoops : Sleep(l)
    \/ \E d \in TimeSteps : Tick(d)

SpecRace == InitRace /\ [][NextRace]_vars

(***************************************************************************)
(* The three tracks running together over the one store: the iterations    *)
(* the three loops make before any of their sleeps has run out, in every   *)
(* interleaving.                                                           *)
(***************************************************************************)
InitAll ==
    /\ now = 9 * Hour + BOOT_SLEEP_MS
    /\ ticks = 0
    /\ InitLoops
    /\ running = Tracks
    /\ unhandledRejections \in {"throw", "warn"}
    /\ InitStore(0, 0, 0)
    /\ diffOld = <<>>
    /\ diffNew = <<>>
    /\ diffOut = NoDiff

NextAll ==
    \/ \E l \in Tracks : Begin(l)
    \/ SelectProfiles("profiles")
    \/ \E l \in EdgeTracks : SelectEdge(l)
    \/ \E l \in EdgeTracks : ReadDb(l)
    \/ FetchProfiles("profiles")
    \/ FetchFollowing("following")
    \/ FetchLikes("likes")
    \/ \E l \in Tracks, err \in FetchErrors : FetchFails(l, err)
    \/ WriteProfiles("profiles")
    \/ Lookup("following")
    \/ Create("following")
    \/ WriteLike("likes")
    \/ \E l \in EdgeTracks : Finish(l)
    \/ \E l \in Tracks, err \in StoreErrors : StoreFails(l, err)
    \/ \E l \in Tracks : Sleep(l)

SpecAll == InitAll /\ [][NextAll]_vars

(***************************************************************************)
(* The profile module as the driver loads it: importing the module starts  *)
(* scraperProfiles, and scrapers() calls scraperProfiles again, so two     *)
(* loops run over the module's SLEEP_TIME_MS and                           *)
(* SLEEP_UNTIL_TIMESTAMP_IN_MS.                                            *)
(***************************************************************************)
InitDriver ==
    /\ now = 9 * Hour
    /\ ticks = 0
    /\ InitLoops
    /\ running = ProfileLoops
    /\ unhandledRejections \in {"throw", "warn"}
    /\ \E s \in InitStamps("profiles") : InitStore(s[1], s[2], s[3])
    /\ diffOld = <<>>
    /\ diffNew = <<>>
    /\ diffOut = NoDiff

NextDriver ==
    \/ \E l \in ProfileLoops : Begin(l)
    \/ \E l \in ProfileLoops : SelectProfiles(l)
    \/ \E l \in ProfileLoops : FetchProfiles(l)
    \/ \E l \in ProfileLoops, err \in FetchErrors : FetchFails(l, err)
    \/ \E l \in ProfileLoops : WriteProfiles(l)
    \/ \E l \in ProfileLoops, err \in StoreErrors : StoreFails(l, err)
    \/ \E l \in ProfileLoops : Sleep(l)

SpecDriver == InitDriver /\ [][NextDriver]_vars

(***************************************************************************)
(* The following loop over unbounded time.  The code observes times only   *)
(* by comparing them with Date.now() and with each other, so the state is  *)
(* kept relative to the present: when d ms pass, now keeps its value and   *)
(* every stored time moves d ms back.  A time that leaves the window of    *)
(* now ms is kept at the window's edge; for the stored timestamps of the   *)
(* accounts the edge keeps their order, which orderBy reads.  The remote   *)
(* following lists do not change and every fetch is answered.              *)
(***************************************************************************)
LiveSteps == {Hour}

\* lastFollowingCount of account u1: within the quota of one window of the
\* remote API, or beyond it
LiveCounts == {2000, 16000}

\* the accounts each tracked account follows
RemoteListOf(id) == IF id = "u1" THEN <<"u4", "u3">> ELSE <<>>

\* a time d ms further in the past, within the window
Earlier(t, d) == IF t > d THEN t - d ELSE 0

\* a stored timestamp of account id, d ms further in the past: at the edge
\* of the window the accounts keep the order of their timestamps
Aged(field, id, d) ==
    LET t == tUser[id][field] IN
    IF t > d THEN t - d
    ELSE Cardinality({k \in Accounts : tUser[k][field] < t})

AgedRow(id, d) ==
    [tUser[id] EXCEPT !.profileScrapedAt = Aged("profileScrapedAt", id, d),
                      !.likesScrapedAt = Aged("likesScrapedAt", id, d),
                      !.fullFollowingScrapedAt = Aged("fullFollowingScrapedAt", id, d)]

AgedSnapshot(row, d) ==
    [row EXCEPT !.profileScrapedAt = Earlier(@, d),
                !.likesScrapedAt = Earlier(@, d),
                !.fullFollowingScrapedAt = Earlier(@, d)]

\* d ms pass while a loop waits for its timer or for the remote API
TickLive(d) ==
    /\ \E l \in running : pc[l] \in {"sleeping", "fetch"}
    /\ tUser' = [id \in Accounts |-> AgedRow(id, d)]
    /\ SLEEP_UNTIL_TIMESTAMP_IN_MS' =
          [m \in Loops |-> Earlier(SLEEP_UNTIL_TIMESTAMP_IN_MS[m], d)]
    /\ timer' = [l \in Loops |->
                   IF l \in running THEN [timer[l] EXCEPT !.at = Earlier(@, d)]
                   ELSE timer[l]]
    /\ start' = [l \in Loops |-> Earlier(start[l], d)]
    /\ staleUsers' = [l \in Loops |->
                        [i \in 1..Len(staleUsers[l]) |-> AgedSnapshot(staleUsers[l][i], d)]]
    /\ request' = [l \in Loops |->
                     [request[l] EXCEPT !.reset = Earlier(@, d \div 1000)]]
    /\ UNCHANGED <<clockVars, tConnection, tTweet, tLike, SLEEP_TIME_MS, events,
                   EXECUTION_TIME_MS, pc, dbIds, todo, previousConnection, wrote,
                   outcome, passVars, diffVars>>

\* twtr.v2.following(id) answers with the account's unchanging list
FetchStable(l) ==
    /\ FetchFollowing(l)
    /\ pc'[l] # "returned" => Ids(request'[l].users) = RemoteListOf(staleUsers[l][1].id)

InitLive ==
    /\ now = 9 * Hour
    /\ ticks = 0
    /\ InitLoops
    /\ running = {"following"}
    /\ unhandledRejections = "throw"
    /\ \E c \in LiveCounts :
          tUser = [id \in Accounts |->
                      CASE id = "u1" -> TrackedRow(0, 0, 0, c)
                        [] id = "u2" -> TrackedRow(Hour, Hour, Hour, 0)
                        [] OTHER -> NoRow]
    /\ diffOld = <<>>
    /\ diffNew = <<>>
    /\ diffOut = NoDiff

LiveLoop ==
    \/ Begin("following")
    \/ SelectEdge("following")
    \/ ReadDb("following")
    \/ FetchStable("following")
    \/ Lookup("following")
    \/ Create("following")
    \/ Finish("following")
    \/ Sleep("following")

LiveClock == \E d \in LiveSteps : TickLive(d)

NextLive == LiveLoop \/ LiveClock

\* the loop is an async function the event loop resumes whenever the promise
\* it awaits settles, and time passes
SpecLive == InitLive /\ [][NextLive]_vars /\ WF_vars(LiveLoop) /\ WF_vars(LiveClock)

(***************************************************************************)
(* Properties.                                                             *)
(***************************************************************************)
Rows(from, to) == {c \in tConnection : c.fromId = from /\ c.toId = to}

\* the targets whose row of highest version from `from` in `table` is CONNECTED
LatestConnected(table, from) ==
    {c.toId : c \in {d \in table :
        /\ d.fromId = from
        /\ d.status = "CONNECTED"
        /\ \A e \in table : (e.fromId = from /\ e.toId = d.toId) => e.version <= d.version}}

Kinds(l) == {w.kind : w \in wrote[l]}

ConnWrites(l) == {w \in wrote[l] : w.kind = "conn"}

Completed(l) == pc[l] = "returned" /\ outcome[l] = "ok"

\* C1: under the single following writer, the versions stored for every
\* (from, to) pair are 0, 1, ..., n-1 for its n rows: each append took the
\* highest stored version plus one, and no (from, to, version) occurs twice.
C1_VersionsGapFree ==
    \A from \in Accounts, to \in Accounts :
        Versions(from, to) = 0 .. (Cardinality(Rows(from, to)) - 1)

C1_Witness == \E c \in tConnection : c.version = 1

\* C2: a completed following pass for u, with L the targets connected before
\* the pass and R the fetched set, appended exactly one CONNECTED row per id
\* of R \ L, exactly one DISCONNECTED row per id of L \ R and nothing else,
\* and leaves the connected targets of u equal to R.
C2_Reconciled ==
    LET l == "following" IN
    Completed(l) =>
        LET u == staleUsers[l][1].id
            before == tConnection \ {[fromId |-> w.id, toId |-> w.to,
                                      version |-> w.version, status |-> w.status] :
                                     w \in ConnWrites(l)}
            L == LatestConnected(before, u)
            R == {x.id : x \in Elems(request[l].users)}
        IN  /\ \A id \in Accounts :
                  LET mine == {w \in ConnWrites(l) : w.to = id} IN
                  /\ id \in R \ L =>
                        Cardinality(mine) = 1 /\ \A w \in mine : w.status = "CONNECTED"
                  /\ id \in L \ R =>
                        Cardinality(mine) = 1 /\ \A w \in mine : w.status = "DISCONNECTED"
                  /\ id \notin (R \ L) \cup (L \ R) => mine = {}
            /\ \A w \in ConnWrites(l) : w.id = u
            /\ LatestConnected(tConnection, u) = R

C2_Witness ==
    LET l == "following" IN
    /\ Completed(l)
    /\ \E a, b, c \in Accounts :
          /\ a \in Elems(dbIds[l]) /\ ~SetHas(Ids(request[l].users), a)
          /\ b \in Elems(dbIds[l]) /\ SetHas(Ids(request[l].users), b)
          /\ c \notin Elems(dbIds[l]) /\ SetHas(Ids(request[l].users), c)

\* C3: a completed pass that follows a completed pass of the same track for
\* the same accounts with the same remote data writes no connection row
\* (following), creates no like row (likes) and writes no existence flag
\* (profiles): the edge tracks write the timestamp only, the profile track
\* the timestamp and the unchanged profile data.
C3_SecondPassNoOp ==
    \A l \in Tracks, id \in Accounts :
        (Completed(l) /\ id \in Batch(l) /\ lastPass[l][id] = <<RemoteFor(l, id)>>) =>
            IF l \in EdgeTracks
            THEN wrote[l] = {W("stamp", id, "", 0, "")}
            ELSE {w.kind : w \in {x \in wrote[l] : x.id = id}} \subseteq {"profile", "stamp"}

C3_Witness ==
    LET l == "following" IN
    /\ Completed(l)
    /\ lastPass[l][staleUsers[l][1].id] = <<RemoteFor(l, staleUsers[l][1].id)>>
    /\ Len(request[l].users) = 2

\* C4: the diff of two id lists: added = new \ old, removed = old \ new,
\* added one way = removed the other way, equal sets give two empty
\* results, and any reordering or repetition of the inputs gives the same.
C4_Diff ==
    diffOut.done =>
        /\ Elems(diffOut.added) = Elems(diffNew) \ Elems(diffOld)
        /\ Elems(diffOut.removed) = Elems(diffOld) \ Elems(diffNew)
        /\ Elems(diffOut.added) = Elems(diffOut.backRemoved)
        /\ Elems(diffOut.removed) = Elems(diffOut.backAdded)
        /\ Len(diffOut.added) = Cardinality(Elems(diffOut.added))
        /\ Len(diffOut.removed) = Cardinality(Elems(diffOut.removed))
        /\ Elems(diffOld) = Elems(diffNew) =>
              diffOut.added = <<>> /\ diffOut.removed = <<>>
        /\ \A p \in IdLists, q \in IdLists :
              (Elems(p) = Elems(diffOld) /\ Elems(q) = Elems(diffNew)) =>
                  /\ Elems(added(p, q)) = Elems(diffOut.added)
                  /\ Elems(removed(p, q)) = Elems(diffOut.removed)

C4_Witness ==
    /\ diffOut.done
    /\ diffOut.added # <<>>
    /\ diffOut.removed # <<>>
    /\ Len(diffOld) > Cardinality(Elems(diffOld))

ExitsBeforeWrites ==
    {"skipped", "none", "nothingDue", "quota", "RateLimited", "ServerError",
     "RequestError", "TypeError"}

C6_AsClaimed ==
    LET l == "profiles" IN
    Completed(l) =>
        \A id \in Batch(l) \ {x.id : x \in Elems(request[l].users)} :
            /\ ~tUser[id].accountExists
            /\ W("stamp", id, "", 0, "") \in wrote[l]
            /\ tUser[id].profileScrapedAt >= start[l]

\* C7: on every track a RateLimited fetch is caught: the iteration has
\* written nothing, SLEEP_UNTIL_TIMESTAMP_IN_MS is the reset time in ms,
\* SLEEP_TIME_MS is 1.1 times what it was, and the loop is at its sleep step.
C7_RateLimited ==
    [][\A l \in Tracks :
          (outcome'[l] = "RateLimited" /\ outcome[l] # "RateLimited") =>
              /\ pc'[l] = "caught"
              /\ wrote'[l] = {}
              /\ storeVars' = storeVars
              /\ SLEEP_UNTIL_TIMESTAMP_IN_MS'[l] = request'[l].reset * 1000
              /\ SLEEP_TIME_MS'[l].num * SLEEP_TIME_MS[l].den * 10 =
                    SLEEP_TIME_MS[l].num * 11 * SLEEP_TIME_MS'[l].den]_vars

C7_Witness ==
    /\ pc["following"] = "caught"
    /\ outcome["following"] = "RateLimited"
    /\ events["following"].rateLimited = 2

\* C8 as claimed: on every track, with ts the timestamp the candidates are
\* ordered by, an iteration whose oldest candidate has now - ts <= 8h ends
\* as nothing due with no fetch, no write and sleepUntil = ts + 8h, and an
\* iteration goes on to fetch only when now - ts > 8h.
C8_AsClaimed ==
    \A l \in Tracks :
        staleUsers[l] # <<>> =>
            LET ts == Stamp(staleUsers[l][1], l) IN
            /\ (pc[l] = "returned" /\ outcome[l] = "nothingDue") =>
                  /\ start[l] + EXECUTION_TIME_MS[l] - ts <= REFRESH_THRESHOLD_IN_MS
                  /\ SLEEP_UNTIL_TIMESTAMP_IN_MS[l] = ts + REFRESH_THRESHOLD_IN_MS
                  /\ wrote[l] = {}
                  /\ request[l] = NoRequest
            /\ pc[l] \in {"readdb", "fetch"} => now - ts > REFRESH_THRESHOLD_IN_MS

RECURSIVE Grown(_)
Grown(k) ==
    IF k = 0 THEN Frac(INITIAL_SLEEP_TIME_MS, 1)
    ELSE Frac(Grown(k - 1).num * 11, Grown(k - 1).den * 10)

\* C9 as claimed: on each of the three tracks, with no rate limit so far,
\* SLEEP_TIME_MS is 60000 * 1.1^k after k iterations that found nothing due.
C9_AsClaimed ==
    \A l \in Tracks :
        events[l].rateLimited = 0 => SLEEP_TIME_MS[l] = Grown(events[l].nothingDue)

\* C10 as claimed: on every track an iteration that raised RateLimited, a
\* 5xx or a duplicate-key conflict is caught and the loop goes on.
C10_AsClaimed ==
    \A l \in Tracks :
        outcome[l] \in {"RateLimited", "ServerError", "P2002"} => pc[l] # "crashed"

\* the accounts an iteration is working on when it fails: the account of the
\* write that failed in a profile batch, otherwise the selected account(s)
BeingProcessed(l) ==
    IF TrackOf(l) = "profiles" /\ todo[l] # <<>> THEN {Head(todo[l]).id} ELSE Batch(l)

SnapshotOf(l, id) ==
    LET hits == SelectSeq(staleUsers[l], LAMBDA r : r.id = id) IN hits[1]

\* C11 as claimed: an iteration that fails with a 5xx remote error or with a
\* duplicate-key conflict sets the track's sleepUntil to now + 60 s, leaves
\* the base interval as it was, and leaves the timestamp of the account
\* being processed as it was when the account was selected.
C11_AsClaimed ==
    [][\A l \in Tracks :
          (outcome'[l] \in {"ServerError", "P2002"} /\ outcome[l] = "running") =>
              /\ SLEEP_UNTIL_TIMESTAMP_IN_MS'[l] = now' + COOLDOWN_MS
              /\ SLEEP_TIME_MS'[l] = SLEEP_TIME_MS[l]
              /\ \A id \in BeingProcessed(l) :
                    Stamp(tUser'[id], l) = Stamp(SnapshotOf(l, id), l)]_vars

\* a row written in this iteration of l that repeats the status the pair's
\* preceding version already records
RepeatsRecorded(l, w) ==
    \E c \in tConnection :
        /\ c.fromId = w.id /\ c.toId = w.to
        /\ c.version = w.version - 1
        /\ c.status = w.status

\* C12 as claimed: with two following loops on the same account, under every
\* interleaving no two stored rows share (from, to, version), a loop that
\* hits the uniqueness violation is not terminated, and the iteration that
\* replays after the violation appends no row for an edge that is already
\* recorded with that status.
C12_AsClaimed ==
    /\ \A c, d \in tConnection :
          (c.fromId = d.fromId /\ c.toId = d.toId /\ c.version = d.version) => c = d
    /\ \A l \in FollowingLoops :
          /\ outcome[l] = "P2002" => pc[l] # "crashed"
          /\ l \in replay => \A w \in ConnWrites(l) : ~RepeatsRecorded(l, w)

\* C13: no step of any track sets accountExists of a stored account back
\* from false to true, also when the following track upserts the account
\* as a followed user.
C13_ExistsMonotonic ==
    [][\A id \in Accounts :
          (tUser[id].present /\ ~tUser[id].accountExists) =>
              (tUser'[id].present /\ ~tUser'[id].accountExists)]_vars

\* the profile track has marked u2 as gone and the following track has
\* since upserted u2 as a followed user
C13_Witness ==
    /\ tUser["u2"].present /\ ~tUser["u2"].accountExists
    /\ pc["profiles"] = "sleeping" /\ lastPass["profiles"]["u1"] # <<>>
    /\ pc["following"] = "create" /\ Head(todo["following"]).id = "u2"
    /\ W("user", "u2", "", 0, "") \in wrote["following"]

\* a loop is inside loop(), between its start and its return or throw
InProgress(l) ==
    pc[l] \in {"select", "readdb", "fetch", "write", "lookup", "create", "finish"}

\* C14 as claimed: no two iterations of the same track are in progress at
\* the same time.
C14_AsClaimed ==
    \A l \in running, k \in running :
        (l # k /\ TrackOf(l) = TrackOf(k)) => ~(InProgress(l) /\ InProgress(k))

\* C15 as claimed: once an iteration of any track has thrown an error that
\* is not recoverable, no track of the process begins another iteration.
C15_AsClaimed ==
    [][\A l \in running :
          (\E k \in running : ProcessOf(k) = ProcessOf(l) /\ pc[k] = "crashed")
              => ~(pc[l] = "sleeping" /\ pc'[l] # "sleeping")]_vars

\* C16: no step deletes or rewrites history: every connection row stays,
\* every like row stays at its place and unchanged (also a like that is no
\* longer in the remote liked list), and no account row is removed.
C16_HistoryKept ==
    [][/\ tConnection \subseteq tConnection'
       /\ Len(tLike) <= Len(tLike')
       /\ \A i \in 1..Len(tLike) : tLike'[i] = tLike[i]
       /\ tTweet \subseteq tTweet'
       /\ \A id \in Accounts : tUser[id].present => tUser'[id].present]_vars

\* a likes pass whose remote liked list no longer holds a stored like has
\* reached its end, and the like row is still there
C16_Witness ==
    /\ pc["likes"] = "finish"
    /\ request["likes"].tweets = <<>>
    /\ HasLike(staleUsers["likes"][1].id, "t1")

\* a loop has passed its threshold check and works on its selection
Refreshing(l) ==
    pc[l] \in {"readdb", "fetch", "write", "lookup", "create", "finish"}

\* C17 as claimed: whenever a track fetches and reconciles accounts, the
\* track's timestamp of every selected account, also of every account of a
\* profile batch, is more than 8 hours older than now.
C17_AsClaimed ==
    \A l \in running :
        Refreshing(l) =>
            \A i \in 1..Len(staleUsers[l]) :
                now - Stamp(staleUsers[l][i], TrackOf(l)) > REFRESH_THRESHOLD_IN_MS

\* the step that selects accounts takes only accounts that are marked and
\* exist in the store at that moment, and on the edge tracks only accounts
\* that are not stored as protected
SelectionFilter ==
    \A l \in running :
        pc[l] = "select" =>
            \A i \in 1..Len(staleUsers'[l]) :
                LET row == tUser[staleUsers'[l][i].id] IN
                /\ row.present /\ row.marked /\ row.accountExists
                /\ l \in EdgeLoops => ~row.protected

\* the stored protected flag is the protected state of the remote account
ProtectedReflectsRemote ==
    \A id \in Accounts :
        tUser[id].present => tUser[id].protected = RemoteUser(id).protected

\* C18 as claimed: every selection obeys the filter, and the protected flag
\* stored for an account is the protected state of the remote account.
C18_AsClaimed == [][SelectionFilter /\ ProtectedReflectsRemote']_vars

\* what a skipped iteration must leave alone: the stores, both governor
\* variables and the loop's selection, request and writes
SkipLeaves(l) ==
    /\ UNCHANGED <<tUser, tConnection, tTweet, tLike>>
    /\ UNCHANGED <<SLEEP_TIME_MS, SLEEP_UNTIL_TIMESTAMP_IN_MS>>
    /\ staleUsers'[l] = <<>>
    /\ request'[l] = NoRequest
    /\ wrote'[l] = {}

\* C19: an iteration that starts while now has not passed the track's
\* sleepUntil goes straight to the sleep step and from there to sleeping; it
\* selects nothing, fetches nothing, writes nothing, and leaves sleepUntil,
\* the base interval and every staleness timestamp unchanged.
C19_SkipsToSleep ==
    [][\A l \in running :
          /\ (/\ pc[l] = "sleeping"
              /\ pc'[l] # "sleeping"
              /\ now <= SLEEP_UNTIL_TIMESTAMP_IN_MS[ModuleOf(l)])
                 => (pc'[l] = "skipped" /\ SkipLeaves(l))
          /\ pc[l] = "skipped"
                 => (pc'[l] \in {"skipped", "sleeping"} /\ SkipLeaves(l))]_vars

\* an iteration of the following track is skipped because now has not passed
\* the sleepUntil set by an earlier iteration
C19_Witness ==
    /\ pc["following"] = "skipped"
    /\ now <= SLEEP_UNTIL_TIMESTAMP_IN_MS["following"]
    /\ SLEEP_UNTIL_TIMESTAMP_IN_MS["following"] > 0

\* ms = max(1000, base - exec), for fractions ms and base and an integer exec
IsFlooredDifference(ms, base, exec) ==
    LET diff == base.num - exec * base.den IN    \* (base - exec) * base.den
    IF diff >= 1000 * base.den
    THEN ms.num * base.den = diff * ms.den
    ELSE ms.num = 1000 * ms.den

\* C20: the duration a loop sleeps at the end of an iteration is
\* max(1000, base interval - execution time), and so at least 1000 ms, also
\* when the execution time is larger than the base interval.
C20_SleepFloor ==
    [][\A l \in running :
          (pc[l] \in {"returned", "caught", "skipped"} /\ pc'[l] = "sleeping")
              => /\ IsFlooredDifference(timer'[l].ms, SLEEP_TIME_MS[ModuleOf(l)],
                                        EXECUTION_TIME_MS[l])
                 /\ timer'[l].ms.num >= 1000 * timer'[l].ms.den
                 /\ timer'[l].at = now]_vars

\* a loop sleeps the floor of 1000 ms after an iteration that took longer
\* than the base interval
C20_Witness ==
    \E l \in running :
        /\ pc[l] = "sleeping"
        /\ lastPass[l] # [id \in Accounts |-> <<>>]
        /\ EXECUTION_TIME_MS[l] * SLEEP_TIME_MS[ModuleOf(l)].den
              > SLEEP_TIME_MS[ModuleOf(l)].num
        /\ timer[l].ms = Frac(1000, 1)

\* C21: every module's SLEEP_TIME_MS is 60000 before the first backoff
\* event and is never below it; a step that changes it multiplies it by 1.1
\* and is the step in which a loop of that module is throttled or finds
\* nothing due; nothing decreases, resets or caps it.
C21_OnlyGrows ==
    [][\A m \in Tracks :
          /\ (events[m].rateLimited + events[m].nothingDue = 0)
                => SLEEP_TIME_MS[m] = Frac(60000, 1)
          /\ SLEEP_TIME_MS'[m].num >= 60000 * SLEEP_TIME_MS'[m].den
          /\ SLEEP_TIME_MS'[m] # SLEEP_TIME_MS[m]
                => /\ SLEEP_TIME_MS'[m].num * SLEEP_TIME_MS[m].den * 10 =
                         SLEEP_TIME_MS[m].num * 11 * SLEEP_TIME_MS'[m].den
                   /\ \E l \in running :
                         /\ ModuleOf(l) = m
                         /\ outcome[l] = "running"
                         /\ outcome'[l] \in {"RateLimited", "nothingDue"}]_vars

\* two backoff events have compounded: 60000 * 1.1 * 1.1
C21_Witness ==
    \E m \in Tracks :
        /\ events[m].rateLimited + events[m].nothingDue = 2
        /\ SLEEP_TIME_MS[m] = Frac(72600, 1)

\* the following loop has just advanced the account's timestamp
StampedNow(id) == tUser[id].fullFollowingScrapedAt = now

\* a fetch of the following loop was answered with the whole quota remaining
QuotaFull ==
    /\ request["following"].remaining > 0
    /\ \A r \in RemainingChoices : r <= request["following"].remaining

\* C22 as claimed: with the loop scheduled fairly, time passing, every fetch
\* answered and the remote quota full again and again, every account that
\* stays marked, existing and not protected has its following timestamp
\* advanced again and again.
C22_AsClaimed ==
    ([]<>QuotaFull) =>
        \A id \in Tracked : []<>(id \notin Eligible("following") \/ StampedNow(id))

\* C23: with one following loop writing, the first row of every (from, to)
\* version log is CONNECTED and consecutive versions of a pair never carry the
\* same status.
C23_StatusesAlternate ==
    \A r \in tConnection :
        /\ r.version = 0 => r.status = "CONNECTED"
        /\ \A q \in tConnection :
              (q.fromId = r.fromId /\ q.toId = r.toId /\ q.version = r.version + 1)
                  => q.status # r.status

\* a pair was connected, disconnected and connected again by three passes
C23_Witness ==
    \E r0 \in tConnection, r1 \in tConnection, r2 \in tConnection :
        /\ r0.fromId = r1.fromId /\ r1.fromId = r2.fromId
        /\ r0.toId = r1.toId /\ r1.toId = r2.toId
        /\ r0.version = 0 /\ r1.version = 1 /\ r2.version = 2
        /\ r1.status = "DISCONNECTED"
        /\ running = {"following"}

\* the selection of loop l returns no account, and the iteration returns
\* without an error, a fetch or a write
EmptySelectionReturns(l) ==
    (pc[l] = "select" /\ pc'[l] # "select" /\ staleUsers'[l] = <<>>)
        => /\ pc'[l] = "returned"
           /\ outcome'[l] = "none"
           /\ request'[l] = NoRequest
           /\ wrote'[l] = {}
           /\ UNCHANGED storeVars

\* C24 as claimed: on every track an iteration whose selection finds no
\* eligible account ends without a fetch, a write or an error, and the loop
\* goes on to its sleep step.
C24_AsClaimed == [][\A l \in running : EmptySelectionReturns(l)]_vars

\* C25 as claimed: at the sleep computation of an iteration that was skipped
\* the execution time is zero, and of an iteration that ended in a caught
\* error it is the time since that iteration started.
C25_AsClaimed ==
    \A l \in running :
        /\ pc[l] = "skipped" => EXECUTION_TIME_MS[l] = 0
        /\ pc[l] = "caught" => EXECUTION_TIME_MS[l] = now - start[l]

====
